---------------------------- MODULE Spec2Model ----------------------------
(***************************************************************************)
(* Model of the time-series feature-engineering recipes of                 *)
(* Time-Series-Forecasting/basic_feature_engineering_with_time_series_     *)
(* data_in_python.ipynb.                                                   *)
(*                                                                         *)
(* Every code cell of the notebook loads the same series and assigns the   *)
(* global `dataframe`.  The cells share one kernel, so they may be run in  *)
(* any order and a cell that raises leaves `dataframe` as the previous     *)
(* cell left it.  One action models one cell.                              *)
(*                                                                         *)
(* `index` holds the time stamps of the series, `earlier` one output kept   *)
(* from an earlier run of a cell (the output stored under the cell).       *)
(*                                                                         *)
(* Numbers are exact rationals [num, den] in lowest terms; NaN is 0/0.     *)
(* Row index i of the notebook (0-based) is position i + 1 of a sequence.  *)
(***************************************************************************)
EXTENDS Integers, Sequences, FiniteSets, TLC

VARIABLES series, index, dataframe, cell, width, target_offset, raised,
          earlier

vars ==
  <<series, index, dataframe, cell, width, target_offset, raised, earlier>>

(***************************************************************************)
(* Bounds of the model.                                                    *)
(***************************************************************************)
MaxLen == 4
MaxVal == 1
MaxWidth == 3
MaxOffset == 1

(***************************************************************************)
(* Numbers.                                                                *)
(***************************************************************************)
NaN == [num |-> 0, den |-> 0]

IsNaN(v) == v.den = 0

RECURSIVE GCD(_, _)
GCD(a, b) == IF b = 0 THEN a ELSE GCD(b, a % b)

Rat(n, d) ==
  IF d = 0 THEN NaN
  ELSE LET g == GCD(n, d) IN [num |-> n \div g, den |-> d \div g]

Add(a, b) == Rat(a.num * b.den + b.num * a.den, a.den * b.den)

Less(a, b) == a.num * b.den < b.num * a.den

Max2(a, b) == IF a >= b THEN a ELSE b

(***************************************************************************)
(* The data: the first observations of the temperature file, as the        *)
(* notebook prints them, with any subset of them missing, and short series *)
(* over a small alphabet in which any observation may be missing.          *)
(***************************************************************************)
Temperatures ==
  <<Rat(207, 10), Rat(179, 10), Rat(188, 10), Rat(146, 10), Rat(158, 10),
    Rat(158, 10)>>

FirstRows(n) == SubSeq(Temperatures, 1, n)

\* The series x with the observations at the positions in `missing` absent.
Mask(x, missing) == [i \in 1..Len(x) |-> IF i \in missing THEN NaN ELSE x[i]]

Values == {Rat(v, 1) : v \in 0..MaxVal} \cup {NaN}

Inputs ==
  UNION {[1..n -> Values] : n \in 0..MaxLen}
    \cup {Mask(FirstRows(n[1]), n[2]) :
            n \in UNION {{<<k, m>> : m \in SUBSET (1..k)} :
                           k \in 1..Len(Temperatures)}}

\* The time stamps: one observation a day, the file starting on 1 January
\* 1981.  A time stamp is a month and a day of a year that is not a leap year.
DaysIn(month) ==
  CASE month = 2 -> 28
    [] month \in {4, 6, 9, 11} -> 30
    [] OTHER -> 31

NextDay(ts) ==
  IF ts.day < DaysIn(ts.month) THEN [month |-> ts.month, day |-> ts.day + 1]
  ELSE [month |-> (ts.month % 12) + 1, day |-> 1]

RECURSIVE Dates(_, _)
Dates(start, n) ==
  IF n = 0 THEN <<>> ELSE <<start>> \o Dates(NextDay(start), n - 1)

FirstDay == [month |-> 1, day |-> 1]

(***************************************************************************)
(* pandas primitives, as the recipes call them.                            *)
(***************************************************************************)
\* DataFrame.shift(periods): positions move down by periods, the vacated
\* positions hold NaN, the length is unchanged.
ShiftWrap(x, periods) ==
  [i \in 1..Len(x) |-> x[((i - periods - 1) % Len(x)) + 1]]

ShiftClamp(x, periods) ==
  [i \in 1..Len(x) |->
     IF i - periods < 1 THEN x[1]
     ELSE IF i - periods > Len(x) THEN x[Len(x)]
     ELSE x[i - periods]]

ShiftZeroFill(x, periods) ==
  [i \in 1..Len(x) |->
     IF i - periods \in 1..Len(x) THEN x[i - periods] ELSE Rat(0, 1)]

Shift(x, periods) ==
  [i \in 1..Len(x) |->
     IF i - periods \in 1..Len(x) THEN x[i - periods] ELSE NaN]

\* The observations (non-NaN entries) of x at positions lo..hi.
Obs(x, lo, hi) == SelectSeq(SubSeq(x, lo, hi), LAMBDA v : ~IsNaN(v))

RECURSIVE SeqSum(_)
SeqSum(s) == IF s = <<>> THEN Rat(0, 1) ELSE Add(s[1], SeqSum(Tail(s)))

RECURSIVE SeqMin(_)
SeqMin(s) ==
  IF Len(s) = 1 THEN s[1]
  ELSE LET m == SeqMin(Tail(s)) IN IF Less(m, s[1]) THEN m ELSE s[1]

RECURSIVE SeqMax(_)
SeqMax(s) ==
  IF Len(s) = 1 THEN s[1]
  ELSE LET m == SeqMax(Tail(s)) IN IF Less(s[1], m) THEN m ELSE s[1]

SeqMean(s) ==
  LET t == SeqSum(s) IN Rat(t.num, t.den * Len(s))

\* A window statistic over the observations obs; NaN when there are fewer
\* than min_periods of them.
Stat(name, obs, min_periods) ==
  IF Len(obs) < min_periods \/ Len(obs) = 0 THEN NaN
  ELSE CASE name = "min" -> SeqMin(obs)
         [] name = "max" -> SeqMax(obs)
         [] name = "mean" -> SeqMean(obs)

\* rolling(window=window) is called without min_periods, which then defaults
\* to the window size.
MinPeriodsOne(window) == 1

MinPeriods(window) == window

\* x.rolling(window=window).<name>(): a row is NaN unless its window holds
\* min_periods observations.
Rolling(x, window, name) ==
  [i \in 1..Len(x) |->
     Stat(name, Obs(x, Max2(1, i - window + 1), i), MinPeriods(window))]

\* x.expanding().<name>(): min_periods is 1, NaN entries are skipped.
ExpandingCurrent(x, name) ==
  [i \in 1..Len(x) |-> Stat(name, Obs(x, i, i), 1)]

Expanding(x, name) ==
  [i \in 1..Len(x) |-> Stat(name, Obs(x, 1, i), 1)]

\* rolling() rejects a negative window before anything is computed.
RollingRaisesOnNaN(obj, window) ==
  window < 0 \/ \E i \in 1..Len(obj) : IsNaN(obj[i])

RollingRaises(obj, window) == window < 0

\* concat(objs, axis=1) followed by the assignment of the column names: the
\* columns share the index 0..N-1, so the frame has one row per index.
ConcatDropNa(objs, columns) ==
  LET full == [i \in 1..Len(objs[1]) |->
                 [c \in 1..Len(columns) |-> objs[c][i]]]
      kept == SelectSeq(full, LAMBDA r : \A c \in 1..Len(columns) : ~IsNaN(r[c]))
  IN [i \in 1..Len(kept) |->
        [n \in {columns[c] : c \in 1..Len(columns)} |->
           kept[i][CHOOSE c \in 1..Len(columns) : columns[c] = n]]]

\* concat() is called without copy, which defaults to True: the frame gets
\* its own copy of the data of every column.  Without the copy, the column
\* that is the buffer of the series (temps = DataFrame(series.values) wraps
\* it) would stay a view of that buffer: [ref |-> i] is a reference to
\* position i of the series.
ViewOf(x) == IF x = series THEN [i \in 1..Len(x) |-> [ref |-> i]] ELSE x

CopyOf(x) == x

Concat(objs, columns) ==
  [i \in 1..Len(objs[1]) |->
     [n \in {columns[c] : c \in 1..Len(columns)} |->
        CopyOf(objs[CHOOSE c \in 1..Len(columns) : columns[c] = n])[i]]]

\* The shift the rolling recipe applies before rolling(window=width).
RollingShiftOne(w) == 1

RollingShift(w) == w - 1

(***************************************************************************)
(* The notebook.                                                           *)
(***************************************************************************)
\* The widths tried for the named variable `width`: the positive widths, and
\* a negative one, which rolling() rejects.  Width 0 is left out: what
\* rolling(window=0) returns differs between versions of the library.
Widths == {-1} \cup 1..MaxWidth

\* The target offsets tried for the target column temps.shift(-offset).
Offsets == (0 - MaxOffset)..MaxOffset

\* The outputs of the cells are kept only when the notebook is saved with
\* them: `earlier` is "off" when nothing is kept, "none" while nothing has
\* been kept yet, and else the configuration and the table of one earlier
\* run.
NoOutput(state) ==
  [cell |-> state, width |-> 0, target_offset |-> 0, dataframe |-> <<>>]

Remembered(c, w, off, table) ==
  IF earlier.cell = "none"
    THEN {earlier,
          [cell |-> c, width |-> w, target_offset |-> off, dataframe |-> table]}
    ELSE {earlier}

Init ==
  /\ series \in Inputs
  /\ index = Dates(FirstDay, Len(series))
  /\ dataframe = <<>>
  /\ cell = "none"
  /\ width = 0
  /\ target_offset = 0
  /\ raised = "none"
  /\ earlier = NoOutput("off")

\* series.index[i].month and series.index[i].day.
DayAsMonth(ts) == ts.day

Month(ts) == ts.month

Day(ts) == ts.day

\* Cell 2: date-time features, one list comprehension per column.
DateTimeFeatures ==
  /\ cell' = "datetime"
  /\ dataframe' =
       [i \in 1..Len(series) |->
          ("month" :> Rat(Month(index[i]), 1)
             @@ "day" :> Rat(Day(index[i]), 1)
             @@ "temperature" :> series[i])]
  /\ target_offset' = 0
  /\ raised' = "none"
  /\ earlier' \in Remembered("datetime", 0, 0, dataframe')
  /\ UNCHANGED <<series, index, width>>

\* Cell 3: a single lag feature.
LagFeatureForward ==
  /\ cell' = "lag"
  /\ dataframe' = Concat(<<Shift(series, 0 - 1), series>>, <<"t-1", "t+1">>)
  /\ target_offset' = 0
  /\ raised' = "none"
  /\ earlier' \in Remembered("lag", 0, 0, dataframe')
  /\ UNCHANGED <<series, index, width>>

LagFeature ==
  /\ cell' = "lag"
  /\ dataframe' = Concat(<<Shift(series, 1), series>>, <<"t-1", "t+1">>)
  /\ target_offset' = 0
  /\ raised' = "none"
  /\ earlier' \in Remembered("lag", 0, 0, dataframe')
  /\ UNCHANGED <<series, index, width>>

\* Cell 4: the last three observations as lag features.
LagFeatures ==
  /\ cell' = "lags"
  /\ dataframe' =
       Concat(<<Shift(series, 3), Shift(series, 2), Shift(series, 1), series>>,
              <<"t-3", "t-2", "t-1", "t+1">>)
  /\ target_offset' = 0
  /\ raised' = "none"
  /\ earlier' \in Remembered("lags", 0, 0, dataframe')
  /\ UNCHANGED <<series, index, width>>

\* Cell 5: the rolling mean of the previous two values.
RollingMeanStaleWidth ==
  LET shifted == Shift(series, 1)
      window == IF width >= 1 THEN width ELSE 2
  IN
  /\ cell' = "rollmean"
  /\ raised' = "none"
  /\ dataframe' = Concat(<<Rolling(shifted, window, "mean"), series>>,
                         <<"mean(t-2,t-1)", "t+1">>)
  /\ target_offset' = 0
  /\ earlier' \in Remembered("rollmean", 0, 0, dataframe')
  /\ UNCHANGED <<series, index, width>>

RollingMean ==
  LET shifted == Shift(series, 1) IN
  /\ cell' = "rollmean"
  /\ IF RollingRaises(shifted, 2)
       THEN /\ raised' = "ValueError"
            /\ UNCHANGED <<dataframe, target_offset, earlier>>
       ELSE /\ raised' = "none"
            /\ dataframe' = Concat(<<Rolling(shifted, 2, "mean"), series>>,
                                   <<"mean(t-2,t-1)", "t+1">>)
            /\ target_offset' = 0
            /\ earlier' \in Remembered("rollmean", 0, 0, dataframe')
  /\ UNCHANGED <<series, index, width>>

\* Cell 6: min, mean and max of a rolling window whose width is a named
\* variable (3 in the notebook).
RollingWindow(w) ==
  LET shifted == Shift(series, RollingShift(w)) IN
  /\ cell' = "rolling"
  /\ width' = w
  /\ IF RollingRaises(shifted, w)
       THEN /\ raised' = "ValueError"
            /\ UNCHANGED <<dataframe, target_offset, earlier>>
       ELSE /\ raised' = "none"
            /\ dataframe' =
                 Concat(<<Rolling(shifted, w, "min"), Rolling(shifted, w, "mean"),
                          Rolling(shifted, w, "max"), series>>,
                        <<"min", "mean", "max", "t+1">>)
            /\ target_offset' = 0
            /\ earlier' \in Remembered("rolling", w, 0, dataframe')
  /\ UNCHANGED <<series, index>>

\* Cell 9: min, mean and max of the expanding window; the target column is
\* the series shifted back by the target offset (1 in the notebook).
ExpandingWindow(off) ==
  /\ cell' = "expanding"
  /\ dataframe' =
       Concat(<<Expanding(series, "min"), Expanding(series, "mean"),
                Expanding(series, "max"), Shift(series, 0 - off)>>,
              <<"min", "mean", "max", "t+1">>)
  /\ target_offset' = off
  /\ raised' = "none"
  /\ earlier' \in Remembered("expanding", 0, off, dataframe')
  /\ UNCHANGED <<series, index, width>>

Next ==
  \/ DateTimeFeatures
  \/ LagFeature
  \/ LagFeatures
  \/ RollingMean
  \/ \E w \in Widths : RollingWindow(w)
  \/ \E off \in Offsets : ExpandingWindow(off)

Spec == Init /\ [][Next]_vars

\* The notebook run on the five rows it prints, any of them missing, with
\* one earlier output kept for comparison.
InitHistory ==
  /\ series \in {Mask(FirstRows(5), m) : m \in SUBSET (1..5)}
  /\ index = Dates(FirstDay, Len(series))
  /\ dataframe = <<>>
  /\ cell = "none"
  /\ width = 0
  /\ target_offset = 0
  /\ raised = "none"
  /\ earlier = NoOutput("none")

SpecHistory == InitHistory /\ [][Next]_vars

\* The notebook run on five rows of a file that starts on another day.
Starts ==
  {FirstDay, [month |-> 1, day |-> 29], [month |-> 2, day |-> 26],
   [month |-> 12, day |-> 29]}

InitCalendar ==
  /\ series \in {Mask(FirstRows(5), m) : m \in SUBSET (1..5)}
  /\ \E start \in Starts : index = Dates(start, Len(series))
  /\ dataframe = <<>>
  /\ cell = "none"
  /\ width = 0
  /\ target_offset = 0
  /\ raised = "none"
  /\ earlier = NoOutput("off")

SpecCalendar == InitCalendar /\ [][Next]_vars

\* The caller changes the series it passed after a cell has returned: one
\* observation is changed in place, one is added, or the last one is
\* removed.  The cells reload the file, so this is the caller's last step.
MutateSeries ==
  /\ cell \notin {"none", "caller"}
  /\ raised = "none"
  /\ Len(series) >= 1
  /\ \/ \E i \in 1..Len(series) : \E v \in Values \ {series[i]} :
          series' = [series EXCEPT ![i] = v]
     \/ \E v \in Values : series' = Append(series, v)
     \/ series' = SubSeq(series, 1, Len(series) - 1)
  /\ index' = Dates(index[1], Len(series'))
  /\ cell' = "caller"
  /\ UNCHANGED <<dataframe, width, target_offset, raised, earlier>>

\* The notebook run on the three values its text works with, any of them
\* missing, followed by a change of the series by the caller.
InitMutate ==
  /\ series \in {Mask(FirstRows(3), m) : m \in SUBSET (1..3)}
  /\ index = Dates(FirstDay, Len(series))
  /\ dataframe = <<>>
  /\ cell = "none"
  /\ width = 0
  /\ target_offset = 0
  /\ raised = "none"
  /\ earlier = NoOutput("off")

NextMutate ==
  \/ cell # "caller" /\ Next
  \/ MutateSeries

SpecMutate == InitMutate /\ [][NextMutate]_vars

(***************************************************************************)
(* Vocabulary of the properties.  Index i is the notebook's 0-based row    *)
(* index.                                                                  *)
(***************************************************************************)
N == Len(series)

At(i) == series[i + 1]

Row(i) == dataframe[i + 1]

Built(c) == cell = c /\ raised = "none"

Returned == cell # "none" /\ raised = "none"

LagName(k) == CASE k = 1 -> "t-1" [] k = 2 -> "t-2" [] k = 3 -> "t-3"

StatNames == {"min", "mean", "max"}

\* The statistic `name` over the defined values of the series at the
\* indices lo..hi, undefined when there is none.
Over(name, lo, hi) == Stat(name, Obs(series, Max2(0, lo) + 1, hi + 1), 1)

\* C1: for a non-empty series of length N every recipe returns exactly N
\* rows, row i aligned to index i of the series in input order; the rows
\* whose lag lookbacks fall before index 0 are present, with undefined
\* fields, and are not dropped.
C1_OneRowPerIndex ==
  (Returned /\ N >= 1) =>
    /\ Len(dataframe) = N
    /\ cell \in {"lag", "lags"} =>
         \A i \in 0..(N - 1) :
           /\ Row(i)["t+1"] = At(i)
           /\ i = 0 => IsNaN(Row(i)["t-1"])

C1_Witness ==
  /\ Built("lags")
  /\ N >= 4
  /\ \A i \in 0..(N - 1) : ~IsNaN(At(i))
  /\ Len(dataframe) = N
  /\ IsNaN(Row(0)["t-3"]) /\ IsNaN(Row(2)["t-3"]) /\ ~IsNaN(Row(3)["t-3"])

\* C2: for every lag k of the lag recipes (k = 1, and k = 1, 2, 3 at once)
\* and every row i, the lag field is undefined when i < k and equals the
\* value of the series at index i - k when i >= k.
C2_LagFields ==
  /\ Built("lag") =>
       \A i \in 0..(N - 1) :
         Row(i)[LagName(1)] = IF i < 1 THEN NaN ELSE At(i - 1)
  /\ Built("lags") =>
       \A k \in 1..3 : \A i \in 0..(N - 1) :
         Row(i)[LagName(k)] = IF i < k THEN NaN ELSE At(i - k)

C2_Witness ==
  /\ Built("lags")
  /\ N >= 4
  /\ ~IsNaN(At(0)) /\ ~IsNaN(At(1)) /\ At(0) # At(1)
  /\ Row(3)["t-3"] = At(0) /\ Row(3)["t-2"] = At(1)
  /\ IsNaN(Row(2)["t-3"])

\* C3: for every rolling window of width W >= 1 and every row i, the
\* statistics of row i are computed over exactly the values at the indices
\* max(0, i-W) .. i-1, the W values immediately preceding the row's target;
\* the width-parameterised recipe realises this window for every width.
C3_WindowPrecedesTarget ==
  (Built("rolling") /\ width >= 1) =>
    \A i \in 0..(N - 1) : \A name \in StatNames :
      ~IsNaN(Row(i)[name]) => Row(i)[name] = Over(name, i - width, i - 1)

\* C4: with width 3 and the values 20.7, 17.9, 18.8, 14.6, 15.8 the row at
\* index 4 reports min 17.9, max 20.7 and mean 19.133333 (3 * mean = 57.4),
\* the statistics of the window 20.7, 17.9, 18.8.
C4_SpotCheck ==
  (Built("rolling") /\ width = 3 /\ series = FirstRows(5)) =>
    /\ Row(4)["min"] = Rat(179, 10)
    /\ Row(4)["max"] = Rat(207, 10)
    /\ Row(4)["mean"] = Rat(574, 30)
    /\ \A name \in StatNames : Row(4)[name] = Stat(name, FirstRows(3), 3)

C4_Witness ==
  /\ Built("rolling") /\ width = 3 /\ series = FirstRows(5)
  /\ ~IsNaN(Row(4)["mean"])
  /\ \A i \in 0..3 : IsNaN(Row(i)["mean"])

\* The window of row i in a rolling recipe that shifts the series by s and
\* rolls over `window` positions: positions i-window+1 .. i of the shifted
\* series, which are the indices i-window+1-s .. i-s of the series.  The
\* window is full when all its positions exist and hold defined values.
FullWindow(i, s, window) ==
  /\ i - window + 1 - s >= 0
  /\ \A j \in (i - window + 1 - s)..(i - s) : ~IsNaN(At(j))

WindowSum(i, s, window) ==
  SeqSum(SubSeq(series, i - window + 2 - s, i - s + 1))

C6_ExpandingPrior ==
  Built("expanding") =>
    /\ \A i \in 0..(N - 1) : \A name \in StatNames :
         Row(i)[name] = Over(name, 0, i - 1)
    /\ series = FirstRows(5) => Row(4)["mean"] = Rat(18, 1)

\* C7: for every row i and every target offset, the target field equals the
\* value of the series at index i + offset when that index lies in 0 .. N-1
\* and is undefined otherwise; it is never wrapped or clamped.
C7_Target ==
  Returned =>
    \A i \in 0..(N - 1) :
      Row(i)[IF cell = "datetime" THEN "temperature" ELSE "t+1"] =
        IF i + target_offset \in 0..(N - 1) THEN At(i + target_offset)
        ELSE NaN

C7_Witness ==
  /\ Built("expanding")
  /\ target_offset = 1
  /\ N >= 3
  /\ \A i \in 0..(N - 1) : ~IsNaN(At(i))
  /\ At(0) # At(N - 1)
  /\ IsNaN(Row(N - 1)["t+1"])
  /\ \A i \in 0..(N - 2) : Row(i)["t+1"] = At(i + 1)

C9_InvalidConfiguration ==
  (cell # "none" /\ (N = 0 \/ (cell = "rolling" /\ width <= 0))) =>
    raised # "none"

\* C10: for a valid configuration and a non-empty series whose values are
\* undefined at any subset of the indices, even all of them, every recipe
\* completes and returns the full table: missing data raises no error and
\* only yields undefined fields.
C10_MissingDataNoError ==
  (cell # "none" /\ N >= 1 /\ (cell = "rolling" => width >= 1)) =>
    /\ raised = "none"
    /\ DOMAIN dataframe = 1..N
    /\ (\A i \in 0..(N - 1) : IsNaN(At(i))) =>
         \A i \in 0..(N - 1) : \A c \in DOMAIN Row(i) \ {"month", "day"} :
           IsNaN(Row(i)[c])

C10_Witness ==
  /\ Built("rolling")
  /\ width = 2
  /\ N = 4
  /\ IsNaN(At(0)) /\ ~IsNaN(At(1)) /\ ~IsNaN(At(2)) /\ IsNaN(At(3))
  /\ DOMAIN dataframe = 1..N
  /\ ~IsNaN(Row(3)["mean"]) /\ IsNaN(Row(2)["mean"])

\* C11: a field that needs data from before index 0 holds the undefined
\* marker, never 0, the first value of the series or a value from its end:
\* the lag-k field of a row i < k, and the rolling statistics of a row whose
\* window starts before index 0.  An input value 0 at an in-range index is
\* therefore distinguishable from an undefined field: a lag field is 0
\* exactly when the value it looks back to is 0.
C11_UndefinedMarker ==
  /\ NaN # Rat(0, 1)
  /\ Built("lags") =>
       \A k \in 1..3 : \A i \in 0..(N - 1) :
         /\ i < k => IsNaN(Row(i)[LagName(k)])
         /\ Row(i)[LagName(k)] = Rat(0, 1) <=> (i >= k /\ At(i - k) = Rat(0, 1))
  /\ Built("lag") =>
       \A i \in 0..(N - 1) :
         /\ i < 1 => IsNaN(Row(i)["t-1"])
         /\ Row(i)["t-1"] = Rat(0, 1) <=> (i >= 1 /\ At(i - 1) = Rat(0, 1))
  /\ Built("rollmean") =>
       \A i \in 0..(N - 1) : i - 2 < 0 => IsNaN(Row(i)["mean(t-2,t-1)"])
  /\ (Built("rolling") /\ width >= 1) =>
       \A i \in 0..(N - 1) : \A name \in StatNames :
         i - 2 * width + 2 < 0 => IsNaN(Row(i)[name])

C11_Witness ==
  /\ Built("lags")
  /\ N >= 4
  /\ At(0) = Rat(0, 1) /\ At(N - 1) # Rat(0, 1) /\ ~IsNaN(At(N - 1))
  /\ IsNaN(Row(0)["t-1"]) /\ IsNaN(Row(2)["t-3"])
  /\ Row(1)["t-1"] = Rat(0, 1) /\ Row(3)["t-3"] = Rat(0, 1)

\* The column names of the table of each cell.
ColumnsOf(c) ==
  CASE c = "lag" -> {"t-1", "t+1"}
    [] c = "lags" -> {"t-3", "t-2", "t-1", "t+1"}
    [] c = "rollmean" -> {"mean(t-2,t-1)", "t+1"}
    [] c \in {"rolling", "expanding"} -> {"min", "mean", "max", "t+1"}
    [] c = "datetime" -> {"month", "day", "temperature"}

SameConfiguration ==
  /\ Returned
  /\ earlier.cell = cell
  /\ cell = "rolling" => earlier.width = width
  /\ earlier.target_offset = target_offset

\* C12: a recipe is deterministic and has no hidden state: two runs on the
\* same series with the same configuration, whatever cells ran in between,
\* return identical tables (rows, field names, values and undefined
\* positions), and the field names depend on the configuration only.
C12_Deterministic ==
  /\ SameConfiguration => dataframe = earlier.dataframe
  /\ Returned => \A i \in 0..(N - 1) : DOMAIN Row(i) = ColumnsOf(cell)

C12_Witness ==
  /\ SameConfiguration
  /\ cell = "rollmean"
  /\ width = 3
  /\ dataframe = earlier.dataframe
  /\ ~IsNaN(Row(2)["mean(t-2,t-1)"]) /\ IsNaN(Row(4)["mean(t-2,t-1)"])

\* C14: for every row i the calendar fields month and day equal the month
\* and the day of the i-th time stamp and are defined on every row, row 0
\* and rows with a missing observation included; they depend on no other
\* row.
C14_CalendarFields ==
  Built("datetime") =>
    /\ Len(dataframe) = N
    /\ \A i \in 0..(N - 1) :
         /\ Row(i)["month"] = Rat(index[i + 1].month, 1)
         /\ Row(i)["day"] = Rat(index[i + 1].day, 1)
         /\ ~IsNaN(Row(i)["month"]) /\ ~IsNaN(Row(i)["day"])
         /\ Row(i)["temperature"] = At(i)

C14_Witness ==
  /\ Built("datetime")
  /\ N = 5
  /\ IsNaN(At(0)) /\ ~IsNaN(At(1))
  /\ Row(0)["month"] = Rat(1, 1) /\ Row(0)["day"] = Rat(29, 1)
  /\ Row(3)["month"] = Rat(2, 1) /\ Row(3)["day"] = Rat(1, 1)

\* What a table shows: a field that is a view of the series shows the value
\* the series holds now.
Shown(table) ==
  [i \in DOMAIN table |->
     [c \in DOMAIN table[i] |->
        IF "ref" \in DOMAIN table[i][c]
          THEN IF table[i][c].ref \in 1..Len(series)
                 THEN series[table[i][c].ref] ELSE NaN
          ELSE table[i][c]]]

\* C13: a returned table shares no mutable state with its input: a change
\* of the series by the caller (an observation changed, added or removed)
\* leaves every field of the table as it was, and a recipe leaves the
\* series unchanged.
C13_NoAliasing ==
  [][/\ cell' = "caller" => Shown(dataframe)' = Shown(dataframe)
     /\ cell' # "caller" => series' = series]_vars

C13_Witness ==
  /\ cell = "caller"
  /\ N = 3
  /\ Len(dataframe) = 3
  /\ DOMAIN Row(0) = {"t-1", "t+1"}
  /\ Row(0)["t+1"] = Rat(207, 10) /\ At(0) = Rat(0, 1)
  /\ Row(1)["t-1"] = Rat(207, 10)

\* Position p of the series shifted by s: undefined before the start.
ShiftedAt(p, s) == IF p >= 0 /\ p - s >= 0 THEN At(p - s) ELSE NaN

\* The rows of a rolling recipe (shift by s, window of w positions) obey the
\* rule of C15 in the column `name`.
UsableFrom(s, w, name) ==
  /\ \A i \in 0..(N - 1) :
       (\E p \in (i - w + 1)..i : IsNaN(ShiftedAt(p, s))) => IsNaN(Row(i)[name])
  /\ \A i \in 0..(N - 1) : i <= s + w - 2 => IsNaN(Row(i)[name])
  /\ ((\A j \in 0..(N - 1) : ~IsNaN(At(j))) /\ N > s + w - 1) =>
       ~IsNaN(Row(s + w - 1)[name])

\* C15: in the rolling recipes (series shifted by s, then a window of W
\* positions) the statistic of row i is undefined whenever one of the W
\* positions of its window in the shifted series is undefined or lies before
\* the start; the rows 0 .. s+W-2 are undefined and row s+W-1 is the first
\* with usable data: row 2 for the width-2 recipe, row 4 for width 3, row
\* 2 * (width - 1) for the width-parameterised recipe.
C15_FirstUsableRow ==
  /\ Built("rollmean") =>
       /\ UsableFrom(1, 2, "mean(t-2,t-1)")
       /\ \A i \in 0..(N - 1) : i < 2 => IsNaN(Row(i)["mean(t-2,t-1)"])
  /\ (Built("rolling") /\ width >= 1) =>
       \A name \in StatNames :
         /\ UsableFrom(width - 1, width, name)
         /\ \A i \in 0..(N - 1) : i < 2 * (width - 1) => IsNaN(Row(i)[name])
         /\ width = 3 => \A i \in 0..(N - 1) : i < 4 => IsNaN(Row(i)[name])

C15_Witness ==
  /\ Built("rolling")
  /\ width = 3
  /\ series = FirstRows(6)
  /\ \A i \in 0..3 : \A name \in StatNames : IsNaN(Row(i)[name])
  /\ \A i \in 4..5 : \A name \in StatNames : ~IsNaN(Row(i)[name])

\* The series with the value at index j changed to v.
Changed(j, v) == [series EXCEPT ![j + 1] = v]

\* C16: no row leaks its own target into its inputs: in the lag tables, the
\* rolling tables of any width W >= 1 (shift by width - 1, then a window of
\* width) and the expanding table (target one step ahead, as in the
\* notebook), the features of the row whose target is the value at index t
\* are computed from the values at indices below t only, so changing the
\* value at t or at a later index never changes them.
C16_NoTargetLeak ==
  /\ Built("lags") =>
       \A i \in 0..(N - 1) : \A j \in i..(N - 1) : \A v \in Values :
         \A k \in 1..3 : Shift(Changed(j, v), k)[i + 1] = Row(i)[LagName(k)]
  /\ (Built("rolling") /\ width >= 1) =>
       \A i \in 0..(N - 1) : \A j \in i..(N - 1) : \A v \in Values :
         \A name \in StatNames :
           Rolling(Shift(Changed(j, v), RollingShift(width)), width, name)[i + 1]
             = Row(i)[name]
  /\ (Built("expanding") /\ target_offset = 1) =>
       \A i \in 0..(N - 1) : \A j \in (i + 1)..(N - 1) : \A v \in Values :
         \A name \in StatNames :
           Expanding(Changed(j, v), name)[i + 1] = Row(i)[name]

\* C17: along the rows of the expanding table an expanding field that is
\* defined on row i is defined on every later row, the expanding min never
\* increases and the expanding max never decreases from row i to row i + 1,
\* and on every row where they are defined min <= mean <= max.
C17_ExpandingMonotone ==
  Built("expanding") =>
    /\ \A i \in 0..(N - 2) : \A name \in StatNames :
         ~IsNaN(Row(i)[name]) => ~IsNaN(Row(i + 1)[name])
    /\ \A i \in 0..(N - 2) :
         ~IsNaN(Row(i)["min"]) =>
           /\ ~Less(Row(i)["min"], Row(i + 1)["min"])
           /\ ~Less(Row(i + 1)["max"], Row(i)["max"])
    /\ \A i \in 0..(N - 1) :
         ~IsNaN(Row(i)["mean"]) =>
           /\ ~Less(Row(i)["mean"], Row(i)["min"])
           /\ ~Less(Row(i)["max"], Row(i)["mean"])

C17_Witness ==
  /\ Built("expanding")
  /\ N = 4
  /\ IsNaN(At(0)) /\ IsNaN(At(2))
  /\ IsNaN(Row(0)["min"]) /\ ~IsNaN(Row(1)["min"]) /\ ~IsNaN(Row(2)["min"])
  /\ Less(Row(3)["min"], Row(2)["min"])
  /\ Less(Row(3)["min"], Row(3)["mean"]) /\ Less(Row(3)["mean"], Row(3)["max"])

\* C18: a rolling window of width 1 is the lag-1 feature: each of its
\* statistics on row i equals the lag-1 field of that row (undefined at
\* i = 0, the value at index i - 1 for i >= 1); and for every row i <= W
\* the rolling statistics of width W equal the expanding statistics of the
\* same row.
C18_WidthOneIsLag ==
  /\ (Built("rolling") /\ width = 1) =>
       \A i \in 0..(N - 1) : \A name \in StatNames :
         Row(i)[name] = Shift(series, 1)[i + 1]
  /\ (Built("rolling") /\ width >= 1) =>
       \A i \in 0..(N - 1) : \A name \in StatNames :
         i <= width => Row(i)[name] = Expanding(series, name)[i + 1]

=============================================================================
